---- MODULE Spec2Model ----
(***************************************************************************)
(* Model of the Ideaboard flasher / serial terminal page (src/script.js). *)
(*                                                                         *)
(* Text is a sequence of UTF-16 code units written as integers (the code  *)
(* points of the characters).  A message the page writes from a string    *)
(* literal is abbreviated to a one-element sequence holding a code >= 1000 *)
(* that stands for the whole literal; no such literal starts with one of  *)
(* the two progress prefixes of logLine.                                   *)
(*                                                                         *)
(* An asynchronous handler in flight is an activation (a member of the     *)
(* bag procs): every action below is one run of a handler from a click,    *)
(* or from the resolution of the promise it awaits, up to its next await.  *)
(* The page never reads the children of #log back, so the model keeps the  *)
(* newest MaxLog of them; progressLine is SCROLLED when the element it     *)
(* points at is an older child.                                            *)
(*                                                                         *)
(* The calls into the flasher, fetch, requestPort, port.open and           *)
(* reader.read settle either way; the cleanup calls transport.disconnect,  *)
(* port.close and reader.cancel resolve, and leave the one serial port     *)
(* closed.  A call of reader.cancel settles the pending read with done at  *)
(* once, so the read loop resumes before anything else runs.               *)
(***************************************************************************)
EXTENDS Integers, Sequences, FiniteSets, Bags, TLC

VARIABLES
    device,        \* let device: NULL or the SerialPort
    transport,     \* let transport: NULL or the Transport over the device
    esploader,     \* let esploader: NULL or the ESPLoader
    port,          \* let port: NULL or the SerialPort (the same object as device)
    reader,        \* let reader: NULL or the stream reader
    isMonitoring,  \* let isMonitoring
    buffer,        \* let buffer: text received and not yet split into lines
    progressLine,  \* let progressLine: 0 (null), an index of log, DETACHED or SCROLLED
    log,           \* the newest MaxLog children of the #log element, oldest first
    butConnectText,      \* butConnect.textContent
    butProgramDisabled,  \* butProgram.disabled
    butTerminalDisabled, \* butTerminal.disabled
    butTerminalText,     \* butTerminal.textContent
    portOpen,      \* the SerialPort is open (port.readable is not null)
    readerLive,    \* the port's readable stream is locked by a reader that was not cancelled
    procs,         \* the bag of handler activations in flight
    clicks,        \* the number of button clicks so far
    lab            \* inputs and results of the runs of the pure text functions

vars == <<device, transport, esploader, port, reader, isMonitoring, buffer,
          progressLine, log, butConnectText, butProgramDisabled,
          butTerminalDisabled, butTerminalText, portOpen, readerLive, procs, clicks, lab>>

(***************************************************************************)
(* Bounds of the model.                                                    *)
(***************************************************************************)
MaxProcs == 3
MaxClicks == 4
MaxLog == 3
MaxBuffer == 1
MaxText == 4
MaxStream == 4

(***************************************************************************)
(* Characters and bytes.                                                   *)
(***************************************************************************)
BEL == 7
LF == 10
CR == 13
ESC == 27
ZERO == 48
SEMI == 59
LBRACKET == 91
BACKSLASH == 92
RBRACKET == 93
LETTER == 109
EACUTE == 233
LSEP == 8232
PSEP == 8233
REPLACEMENT == 65533
LEAD_C3 == 195
CONT_A9 == 169

IsParam(c) == c \in 48..57 \/ c = SEMI
IsAlpha(c) == c \in 65..90 \/ c \in 97..122
IsControl(c) == c \in 0..9 \/ c \in 11..31 \/ c \in 127..159
\* what "." matches in a JavaScript regular expression without the s flag
IsDot(c) == c \notin {LF, CR, LSEP, PSEP}

RECURSIVE SkipParams(_, _)
SkipParams(s, i) ==
    IF i <= Len(s) /\ IsParam(s[i]) THEN SkipParams(s, i + 1) ELSE i

\* first index j >= i of a character of T with only "." characters in
\* s[i..j-1] (the lazy .*? followed by the terminator), 0 when there is none
RECURSIVE FindTerminator(_, _, _)
FindTerminator(s, i, T) ==
    IF i > Len(s) THEN 0
    ELSE IF s[i] \in T THEN i
    ELSE IF IsDot(s[i]) THEN FindTerminator(s, i + 1, T)
    ELSE 0

\* length of the match of /\x1B\[[0-9;]*[a-zA-Z]/ that starts at i, 0 for none
MatchCSI(s, i) ==
    IF i + 1 <= Len(s) /\ s[i] = ESC /\ s[i + 1] = LBRACKET
    THEN LET j == SkipParams(s, i + 2)
         IN  IF j <= Len(s) /\ IsAlpha(s[j]) THEN j - i + 1 ELSE 0
    ELSE 0

\* length of the match of /\x1B\]0;.*?[T]/ that starts at i, 0 for none
MatchOSC(s, i, T) ==
    IF i + 3 <= Len(s) /\ s[i] = ESC /\ s[i + 1] = RBRACKET
       /\ s[i + 2] = ZERO /\ s[i + 3] = SEMI
    THEN LET j == FindTerminator(s, i + 4, T)
         IN  IF j = 0 THEN 0 ELSE j - i + 1
    ELSE 0

MatchLen(re, s, i) ==
    CASE re = "csi" -> MatchCSI(s, i)
      [] re = "osc_bel" -> MatchOSC(s, i, {BEL})
      [] re = "osc_bs" -> MatchOSC(s, i, {BACKSLASH})
      [] re = "osc_any" -> MatchOSC(s, i, {BEL, BACKSLASH})

\* String.prototype.replace(re, '') with the g flag: matches are found left
\* to right, the search resuming after each match
RECURSIVE RemoveFrom(_, _, _)
RemoveFrom(re, s, i) ==
    IF i > Len(s) THEN <<>>
    ELSE LET n == MatchLen(re, s, i)
         IN  IF n > 0 THEN RemoveFrom(re, s, i + n)
             ELSE <<s[i]>> \o RemoveFrom(re, s, i + 1)

RemoveAll(re, s) == RemoveFrom(re, s, 1)

\* a character class that leaves ESC out
KeepCharMut(c) == ~IsControl(c) \/ c = ESC

\* [^\x00-\x09\x0B-\x1F\x7F-\x9F]
KeepChar(c) == ~IsControl(c)

StripControl(s) == SelectSeq(s, KeepChar)

RECURSIVE CrLfFrom(_, _)
CrLfFrom(s, i) ==
    IF i > Len(s) THEN <<>>
    ELSE IF i < Len(s) /\ s[i] = CR /\ s[i + 1] = LF
         THEN <<LF>> \o CrLfFrom(s, i + 2)
         ELSE <<s[i]>> \o CrLfFrom(s, i + 1)

NormalizeCrLf(s) == CrLfFrom(s, 1)

DropCr(s) == SelectSeq(s, LAMBDA c : c # CR)

cleanSerialOutput(text) ==
    DropCr(NormalizeCrLf(StripControl(
        RemoveAll("osc_any", RemoveAll("osc_bs", RemoveAll("osc_bel",
            RemoveAll("csi", text)))))))

\* TextDecoder.decode(value) for UTF-8 without the stream option, on bytes
\* below 0xE0: a two-byte sequence is one character, a lead byte without its
\* continuation byte and a stray continuation byte are U+FFFD
RECURSIVE DecodeFrom(_, _)
DecodeFrom(b, i) ==
    IF i > Len(b) THEN <<>>
    ELSE IF b[i] < 128 THEN <<b[i]>> \o DecodeFrom(b, i + 1)
    ELSE IF b[i] \in 194..223 /\ i < Len(b) /\ b[i + 1] \in 128..191
         THEN <<(b[i] - 192) * 64 + (b[i + 1] - 128)>> \o DecodeFrom(b, i + 2)
         ELSE <<REPLACEMENT>> \o DecodeFrom(b, i + 1)

decode(value) == DecodeFrom(value, 1)

\* String.prototype.indexOf('\n'), counted from 1; 0 when absent
RECURSIVE IndexOfFrom(_, _, _)
IndexOfFrom(s, c, i) ==
    IF i > Len(s) THEN 0
    ELSE IF s[i] = c THEN i
    ELSE IndexOfFrom(s, c, i + 1)

indexOf(s, c) == IndexOfFrom(s, c, 1)

startsWith(text, prefix) ==
    /\ Len(text) >= Len(prefix)
    /\ SubSeq(text, 1, Len(prefix)) = prefix

(***************************************************************************)
(* Values and literals.                                                    *)
(***************************************************************************)
NULL == "null"
SERIAL_PORT == "SerialPort"
TRANSPORT == "Transport"
ESPLOADER == "ESPLoader"
READER == "Reader"
DETACHED == -1
SCROLLED == -2

FLASH_BAUD_RATE == 921600
TERM_BAUD_RATE == 115200
FLASH_OFFSET == 0

availableFirmware == {"firmware/ideaboardfirmware03202025.bin"}

\* "Programming: " and "Writing at"
ProgrammingPrefix == <<80, 114, 111, 103, 114, 97, 109, 109, 105, 110, 103, 58, 32>>
WritingPrefix == <<87, 114, 105, 116, 105, 110, 103, 32, 97, 116>>

MSG_LOADED == <<1001>>             \* "Ideaboard Flasher & Terminal loaded."
MSG_DISCONNECTED == <<1002>>       \* "Disconnected from serial port."
MSG_CONNECTED == <<1003>>          \* "Connected to serial port."
MSG_FAILED_CONNECT == <<1004>>     \* "Failed to connect: ..."
MSG_CONNECT_FIRST == <<1005>>      \* "Please connect to a serial port first."
MSG_SELECT_FIRMWARE == <<1006>>    \* "Please select a firmware file first."
MSG_ERASING == <<1007>>            \* "Erasing flash..."
MSG_ERASE_DONE == <<1008>>         \* "Erase completed in ...ms."
MSG_FETCHING == <<1009>>           \* "Fetching firmware..."
MSG_PROGRAMMING == <<1010>>        \* "Programming firmware at offset 0x0..."
MSG_PROGRAM_DONE == <<1011>>       \* "Programming completed in ...ms."
MSG_INSTALLED == <<1012>>          \* "Firmware installed successfully. ..."
MSG_PROGRAM_ERROR == <<1013>>      \* e.message of a failed programming step
MSG_RESET == <<1014>>              \* "Reset your device now, waiting 2 seconds..."
MSG_STARTED == <<1015>>            \* "Terminal started at 115200 baud. ..."
MSG_STREAM_ENDED == <<1016>>       \* "Serial stream ended."
MSG_DEVICE_LOST == <<1017>>        \* "Device lost, please reconnect and try again."
MSG_TERMINAL_FAILED == <<1018>>    \* "Terminal failed: ..."
MSG_TERMINAL_STOPPED == <<1019>>   \* "Terminal stopped."

Idle == [op |-> "idle", pc |-> "none", calls |-> <<>>, written |-> <<>>,
         startedConnected |-> FALSE]

\* the program state as one record, so that a handler is a function of it;
\* procs[1] is the activation that runs
Cur(self) ==
       [device |-> device, transport |-> transport, esploader |-> esploader,
        port |-> port, reader |-> reader, isMonitoring |-> isMonitoring,
        buffer |-> buffer, progressLine |-> progressLine, log |-> log,
        butConnectText |-> butConnectText,
        butProgramDisabled |-> butProgramDisabled,
        butTerminalDisabled |-> butTerminalDisabled,
        butTerminalText |-> butTerminalText,
        portOpen |-> portOpen, readerLive |-> readerLive, procs |-> <<self>>]

\* the children of #log that are older than the newest MaxLog
scrolled(S) == IF Len(S.log) > MaxLog THEN Len(S.log) - MaxLog ELSE 0

\* the activations in flight once self has run and become S.procs[1]
after(self, S) ==
    LET others == IF self.op = "idle" THEN procs ELSE procs (-) SetToBag({self})
    IN  IF S.procs[1].op = "idle" THEN others
        ELSE others (+) SetToBag({S.procs[1]})

Commit(self, next) ==
    \E S \in {next} :
        /\ device' = S.device
        /\ transport' = S.transport
        /\ esploader' = S.esploader
        /\ port' = S.port
        /\ reader' = S.reader
        /\ isMonitoring' = S.isMonitoring
        /\ buffer' = S.buffer
        /\ progressLine' = (IF S.progressLine <= 0 THEN S.progressLine
                            ELSE IF S.progressLine > scrolled(S)
                                 THEN S.progressLine - scrolled(S)
                                 ELSE SCROLLED)
        /\ log' = SubSeq(S.log, scrolled(S) + 1, Len(S.log))
        /\ butConnectText' = S.butConnectText
        /\ butProgramDisabled' = S.butProgramDisabled
        /\ butTerminalDisabled' = S.butTerminalDisabled
        /\ butTerminalText' = S.butTerminalText
        /\ portOpen' = S.portOpen
        /\ readerLive' = S.readerLive
        /\ procs' = after(self, S)

At(S, p, pc) == [S EXCEPT !.procs[p].pc = pc]
Finish(S, p) == [S EXCEPT !.procs[p] = Idle]

(***************************************************************************)
(* The display log.                                                        *)
(***************************************************************************)
Entry(text, err) == [text |-> text, err |-> err]

IsProgress(text) ==
    startsWith(text, ProgrammingPrefix) \/ startsWith(text, WritingPrefix)

logLine(S, text) ==
    IF IsProgress(text)
    THEN LET S1 == IF S.progressLine = 0
                   THEN [S EXCEPT !.log = Append(@, Entry(<<>>, FALSE)),
                                  !.progressLine = Len(S.log) + 1]
                   ELSE S
         IN  IF S1.progressLine \in {DETACHED, SCROLLED}
             THEN S1
             ELSE [S1 EXCEPT !.log[S1.progressLine].text = text]
    ELSE [S EXCEPT !.log = Append(@, Entry(text, FALSE))]

logError(S, text) == [S EXCEPT !.log = Append(@, Entry(text, TRUE))]

\* log.innerHTML = "": the children leave the document, progressLine keeps
\* pointing at the element it pointed at
clearLog(S) ==
    [S EXCEPT !.log = <<>>,
              !.progressLine = IF @ = 0 THEN 0 ELSE DETACHED]

toggleUI(S, connected) ==
    [S EXCEPT !.butConnectText = IF connected THEN "Disconnect" ELSE "Connect",
              !.butProgramDisabled = ~connected,
              !.butTerminalDisabled = ~connected]

\* SerialPort.close(), also what Transport.disconnect() does to the device:
\* the streams go away with the port
closePort(S) == [S EXCEPT !.portOpen = FALSE, !.readerLive = FALSE]

(***************************************************************************)
(* stopMonitoring                                                          *)
(***************************************************************************)
\* a teardown that ends in the connected UI
smFinishMut(S, p) ==
    Finish(logLine(toggleUI([S EXCEPT !.port = NULL, !.device = NULL], TRUE),
                   MSG_TERMINAL_STOPPED), p)

smFinish(S, p) ==
    Finish(logLine(toggleUI([S EXCEPT !.port = NULL, !.device = NULL], FALSE),
                   MSG_TERMINAL_STOPPED), p)

smAfterReader(S, p) ==
    IF S.port # NULL /\ S.portOpen THEN At(S, p, "sm_close") ELSE smFinish(S, p)

stopMonitoring(S, p) ==
    LET S1 == [S EXCEPT !.isMonitoring = FALSE, !.butTerminalText = "Terminal"]
    IN  IF S1.reader # NULL THEN At(S1, p, "sm_cancel") ELSE smAfterReader(S1, p)

\* a teardown that cancels the reader and keeps it
smCancelledMut(S, p) == smAfterReader([S EXCEPT !.readerLive = FALSE], p)

\* reader.cancel() has resolved; reader.releaseLock() reads the global again
\* and throws out of the handler when another activation has cleared it
smCancelled(S, p) ==
    LET S1 == [S EXCEPT !.readerLive = FALSE]
    IN  IF S1.reader = NULL THEN Finish(S1, p)
        ELSE smAfterReader([S1 EXCEPT !.reader = NULL], p)

smClosed(S, p) == smFinish(closePort(S), p)

(***************************************************************************)
(* clickConnect                                                            *)
(***************************************************************************)
ccFinish(S, p) ==
    Finish(logLine(toggleUI([S EXCEPT !.device = NULL, !.port = NULL], FALSE),
                   MSG_DISCONNECTED), p)

ccAfterTransport(S, p) ==
    IF S.port # NULL /\ S.portOpen THEN At(S, p, "cc_close") ELSE ccFinish(S, p)

clickConnect(S, p) ==
    IF S.transport # NULL \/ S.port # NULL
    THEN IF S.isMonitoring THEN stopMonitoring(S, p)
         ELSE IF S.transport # NULL THEN At(S, p, "cc_disconnect")
         ELSE ccAfterTransport(S, p)
    ELSE At(S, p, "cc_request")

ccDisconnected(S, p) ==
    ccAfterTransport([closePort(S) EXCEPT !.transport = NULL], p)

ccClosed(S, p) == ccFinish(closePort(S), p)

\* navigator.serial.requestPort has settled: "granted", "denied" (the promise
\* rejects), or "no_transport" (new Transport(...) throws after the port was
\* stored)
ccRequested(S, p, outcome) ==
    CASE outcome = "granted" ->
            Finish(logLine(toggleUI([S EXCEPT !.device = SERIAL_PORT,
                                              !.port = SERIAL_PORT,
                                              !.transport = TRANSPORT], TRUE),
                           MSG_CONNECTED), p)
      [] outcome = "denied" ->
            Finish(toggleUI(logError(S, MSG_FAILED_CONNECT), FALSE), p)
      [] outcome = "no_transport" ->
            Finish(toggleUI(logError([S EXCEPT !.device = SERIAL_PORT,
                                               !.port = SERIAL_PORT],
                                     MSG_FAILED_CONNECT), FALSE), p)

(***************************************************************************)
(* clickProgram                                                            *)
(***************************************************************************)
Connected(S) ==
    /\ S.transport # NULL /\ S.port # NULL /\ ~S.isMonitoring
    /\ S.butConnectText = "Disconnect"
    /\ ~S.butProgramDisabled /\ ~S.butTerminalDisabled

\* the external call the activation makes now (a flasher call, or the read
\* that ends the read loop)
invoke(S, p, step) ==
    [S EXCEPT !.procs[p].calls = Append(@, [step |-> step, result |-> "pending"])]

\* the pending call has settled
settle(S, p, result) ==
    [S EXCEPT !.procs[p].calls[Len(S.procs[p].calls)].result = result]

arrayBufferToBinaryString(arrayBuffer) ==
    [i \in 1..Len(arrayBuffer) |-> arrayBuffer[i]]

\* options that ask for a full erase when the image is empty
flashOptionsMut(firmwareData) ==
    [fileArray |-> <<[data |-> firmwareData, address |-> FLASH_OFFSET]>>,
     flashSize |-> "keep", eraseAll |-> Len(firmwareData) = 0, compress |-> TRUE]

flashOptions(firmwareData) ==
    [fileArray |-> <<[data |-> firmwareData, address |-> FLASH_OFFSET]>>,
     flashSize |-> "keep", eraseAll |-> FALSE, compress |-> TRUE]

cpEnd(S, p) == Finish([S EXCEPT !.esploader = NULL], p)

cpAfterTransport(S, p) ==
    IF S.port # NULL /\ S.portOpen THEN At(S, p, "cp_close") ELSE cpEnd(S, p)

\* the finally block up to its first await
cpFinally(S, p) ==
    LET S1 == [S EXCEPT !.butProgramDisabled = FALSE]
    IN  IF S1.transport # NULL THEN At(S1, p, "cp_disconnect")
        ELSE cpAfterTransport(S1, p)

\* catch (e) { logError(e.message) } and then the finally block
cpCatch(S, p) == cpFinally(logError(S, MSG_PROGRAM_ERROR), p)

\* a handler that disables the button before it checks the selection
clickProgramMut(S, p, selectedFirmware, confirmed) ==
    IF S.transport = NULL THEN Finish(logError(S, MSG_CONNECT_FIRST), p)
    ELSE IF selectedFirmware = ""
    THEN Finish(logError([S EXCEPT !.butProgramDisabled = TRUE,
                                   !.progressLine = 0],
                         MSG_SELECT_FIRMWARE), p)
    ELSE IF ~confirmed THEN Finish(S, p)
    ELSE LET S1 == [S EXCEPT !.butProgramDisabled = TRUE,
                             !.progressLine = 0,
                             !.esploader = ESPLOADER,
                             !.procs[p].startedConnected = Connected(S)]
         IN  At(invoke(S1, p, "main"), p, "cp_main")

clickProgram(S, p, selectedFirmware, confirmed) ==
    IF S.transport = NULL THEN Finish(logError(S, MSG_CONNECT_FIRST), p)
    ELSE IF selectedFirmware = "" THEN Finish(logError(S, MSG_SELECT_FIRMWARE), p)
    ELSE IF ~confirmed THEN Finish(S, p)
    ELSE LET S1 == [S EXCEPT !.butProgramDisabled = TRUE,
                             !.progressLine = 0,
                             !.esploader = ESPLOADER,
                             !.procs[p].startedConnected = Connected(S)]
         IN  At(invoke(S1, p, "main"), p, "cp_main")

\* esploader.main("default_reset") has settled; it opens the device at the
\* flashing baud rate; "fail_open" is a failure after the device was opened
cpEntered(S, p, outcome) ==
    CASE outcome = "ok" ->
            At(invoke(logLine([settle(S, p, "ok") EXCEPT !.portOpen = TRUE],
                              MSG_ERASING), p, "erase"), p, "cp_erase")
      [] outcome = "fail" -> cpCatch(settle(S, p, "fail"), p)
      [] outcome = "fail_open" ->
            cpCatch([settle(S, p, "fail") EXCEPT !.portOpen = TRUE], p)

cpErased(S, p, ok) ==
    IF ok
    THEN At(invoke(logLine(logLine(settle(S, p, "ok"), MSG_ERASE_DONE),
                           MSG_FETCHING), p, "fetch"), p, "cp_fetch")
    ELSE cpCatch(settle(S, p, "fail"), p)

\* fetch(selectedFirmware) has settled: "ok", "not_ok" (response.ok is
\* false) or "rejected"
cpFetched(S, p, outcome) ==
    IF outcome = "ok" THEN At(S, p, "cp_arrayBuffer")
    ELSE cpCatch(settle(S, p, "fail"), p)

\* response.arrayBuffer() has settled
cpRead(S, p, ok, arrayBuffer) ==
    IF ok
    THEN LET firmwareData == arrayBufferToBinaryString(arrayBuffer)
             S1 == logLine(settle(S, p, "ok"), MSG_PROGRAMMING)
             S2 == [S1 EXCEPT !.procs[p].written =
                                  Append(@, flashOptions(firmwareData))]
         IN  At(invoke(S2, p, "write"), p, "cp_write")
    ELSE cpCatch(settle(S, p, "fail"), p)

cpWritten(S, p, ok) ==
    IF ok
    THEN cpFinally(logLine(logLine(settle(S, p, "ok"), MSG_PROGRAM_DONE),
                           MSG_INSTALLED), p)
    ELSE cpCatch(settle(S, p, "fail"), p)

cpDisconnected(S, p) ==
    cpAfterTransport([closePort(S) EXCEPT !.transport = NULL], p)

cpClosed(S, p) == cpEnd([closePort(S) EXCEPT !.port = NULL], p)

(***************************************************************************)
(* clickTerminal and the read loop                                         *)
(***************************************************************************)
\* a reader that logs every candidate line
emitMut(S, cleaned) == logLine(S, cleaned)

\* if (cleanedLine) logLine(cleanedLine)
emit(S, cleaned) == IF cleaned # <<>> THEN logLine(S, cleaned) ELSE S

\* a loop that splits off no line
lineLoopMut(S) == S

RECURSIVE lineLoop(_)
lineLoop(S) ==
    LET newlineIndex == indexOf(S.buffer, LF)
    IN  IF newlineIndex = 0 THEN S
        ELSE LET line == SubSeq(S.buffer, 1, newlineIndex - 1)
                 S1 == emit(S, cleanSerialOutput(line))
             IN  lineLoop([S1 EXCEPT !.buffer =
                              SubSeq(S.buffer, newlineIndex + 1, Len(S.buffer))])

\* a chunk was read: decode, append, split
receive(S, value) == lineLoop([S EXCEPT !.buffer = @ \o decode(value)])

\* the reader signalled done
streamEnd(S) ==
    LET S1 == IF S.buffer # <<>>
              THEN [emit(S, cleanSerialOutput(S.buffer)) EXCEPT !.buffer = <<>>]
              ELSE S
    IN  logLine(S1, MSG_STREAM_ENDED)

\* finally { if (isMonitoring) await stopMonitoring(); }
ctFinally(S, p) == IF S.isMonitoring THEN stopMonitoring(S, p) ELSE Finish(S, p)

\* the outer catch and then the finally block
ctCatch(S, p) == ctFinally(logError(S, MSG_TERMINAL_FAILED), p)

clickTerminal(S, p) ==
    IF S.isMonitoring THEN stopMonitoring(S, p)
    ELSE IF S.port = NULL THEN Finish(logError(S, MSG_CONNECT_FIRST), p)
    ELSE At(logLine(S, MSG_RESET), p, "ct_sleep")

\* sleep(2000) is over: port.open(...) is called on the global port
ctSlept(S, p) == IF S.port = NULL THEN ctCatch(S, p) ELSE At(S, p, "ct_open")

\* while (isMonitoring) { ... await reader.read() on the global reader
ctLoop(S, p) ==
    IF ~S.isMonitoring THEN ctFinally(S, p)
    ELSE IF S.reader = NULL THEN ctCatch(S, p)
    ELSE At(S, p, "ct_read")

\* port.open({baudRate: TERM_BAUD_RATE}) has settled
ctOpened(S, p, ok) ==
    IF ~ok THEN ctCatch(S, p)
    ELSE LET S1 == logLine([S EXCEPT !.portOpen = TRUE], MSG_STARTED)
             S2 == [clearLog([S1 EXCEPT !.isMonitoring = TRUE,
                                        !.butTerminalText = "Stop"])
                       EXCEPT !.buffer = <<>>]
         IN  IF S2.port = NULL \/ S2.readerLive THEN ctCatch(S2, p)
             ELSE ctLoop([S2 EXCEPT !.reader = READER, !.readerLive = TRUE], p)

\* reader.read() has settled: a chunk, done, the "device has been lost"
\* error, or another error
ctChunk(S, p, value) == ctLoop(receive(S, value), p)
ctDone(S, p) == ctFinally(streamEnd(settle(invoke(S, p, "read"), p, "done")), p)
ctLost(S, p) ==
    ctFinally(logError(settle(invoke(S, p, "read"), p, "lost"),
                       MSG_DEVICE_LOST), p)
ctError(S, p) == ctCatch(settle(invoke(S, p, "read"), p, "error"), p)

(***************************************************************************)
(* The page after DOMContentLoaded.                                        *)
(***************************************************************************)
\* the button states index.html gives the page
InitUI ==
    /\ butConnectText = "Connect"
    /\ butProgramDisabled = TRUE
    /\ butTerminalDisabled = TRUE
    /\ butTerminalText = "Terminal"

InitPage ==
    /\ device = NULL
    /\ transport = NULL
    /\ esploader = NULL
    /\ port = NULL
    /\ reader = NULL
    /\ isMonitoring = FALSE
    /\ buffer = <<>>
    /\ progressLine = 0
    /\ log = <<Entry(MSG_LOADED, FALSE)>>
    /\ InitUI
    /\ portOpen = FALSE
    /\ readerLive = FALSE
    /\ procs = EmptyBag
    /\ clicks = 0

Init == InitPage /\ lab = <<>>

(***************************************************************************)
(* User actions and promise resolutions.                                   *)
(***************************************************************************)
\* what the user and the environment supply
FirmwareChoices == availableFirmware \cup {""}
FirmwareImages == {<<>>, <<0, EACUTE>>}
SerialChunks == {<<LETTER, LF>>, <<LETTER>>}

InFlight == BagToSet(procs)

\* the read loops suspended at reader.read()
ReadLoops == {self \in InFlight : self.pc = "ct_read"}

\* reader.cancel() was called while a read is pending: the call settles the
\* pending read with done, so the read loop resumes before any other handler
\* does and before a click is served
Drain == ReadLoops # {} /\ \E self \in InFlight : self.pc = "sm_cancel"

\* the activations whose awaited promise can settle now
Runnable == IF Drain THEN ReadLoops ELSE InFlight

CanClick == ~Drain /\ BagCardinality(procs) < MaxProcs /\ clicks < MaxClicks
Begin(op) == [Idle EXCEPT !.op = op]

ClickConnect ==
    /\ CanClick
    /\ Commit(Idle, clickConnect(Cur(Begin("clickConnect")), 1))
    /\ clicks' = clicks + 1
    /\ UNCHANGED lab

ClickProgram ==
    /\ CanClick /\ ~butProgramDisabled
    /\ \E selectedFirmware \in FirmwareChoices, confirmed \in BOOLEAN :
          Commit(Idle, clickProgram(Cur(Begin("clickProgram")), 1,
                                    selectedFirmware, confirmed))
    /\ clicks' = clicks + 1
    /\ UNCHANGED lab

ClickTerminal ==
    /\ CanClick /\ ~butTerminalDisabled
    /\ Commit(Idle, clickTerminal(Cur(Begin("clickTerminal")), 1))
    /\ clicks' = clicks + 1
    /\ UNCHANGED lab

ConnectDisconnected ==
    \E self \in Runnable : self.pc = "cc_disconnect"
        /\ Commit(self, ccDisconnected(Cur(self), 1)) /\ UNCHANGED <<clicks, lab>>

ConnectClosed ==
    \E self \in Runnable : self.pc = "cc_close"
        /\ Commit(self, ccClosed(Cur(self), 1)) /\ UNCHANGED <<clicks, lab>>

ConnectRequested ==
    \E self \in Runnable : self.pc = "cc_request"
        /\ \E outcome \in {"granted", "denied", "no_transport"} :
              Commit(self, ccRequested(Cur(self), 1, outcome))
        /\ UNCHANGED <<clicks, lab>>

ProgramEntered ==
    \E self \in Runnable : self.pc = "cp_main"
        /\ \E outcome \in {"ok", "fail", "fail_open"} :
              /\ outcome # "fail" => ~portOpen
              /\ Commit(self, cpEntered(Cur(self), 1, outcome))
        /\ UNCHANGED <<clicks, lab>>

ProgramErased ==
    \E self \in Runnable : self.pc = "cp_erase"
        /\ \E ok \in BOOLEAN :
              (ok => portOpen) /\ Commit(self, cpErased(Cur(self), 1, ok))
        /\ UNCHANGED <<clicks, lab>>

ProgramFetched ==
    \E self \in Runnable : self.pc = "cp_fetch"
        /\ \E outcome \in {"ok", "not_ok", "rejected"} :
              Commit(self, cpFetched(Cur(self), 1, outcome))
        /\ UNCHANGED <<clicks, lab>>

ProgramRead ==
    \E self \in Runnable : self.pc = "cp_arrayBuffer"
        /\ \E ok \in BOOLEAN, arrayBuffer \in FirmwareImages :
              Commit(self, cpRead(Cur(self), 1, ok, arrayBuffer))
        /\ UNCHANGED <<clicks, lab>>

ProgramWritten ==
    \E self \in Runnable : self.pc = "cp_write"
        /\ \E ok \in BOOLEAN :
              (ok => portOpen) /\ Commit(self, cpWritten(Cur(self), 1, ok))
        /\ UNCHANGED <<clicks, lab>>

ProgramDisconnected ==
    \E self \in Runnable : self.pc = "cp_disconnect"
        /\ Commit(self, cpDisconnected(Cur(self), 1)) /\ UNCHANGED <<clicks, lab>>

ProgramClosed ==
    \E self \in Runnable : self.pc = "cp_close"
        /\ Commit(self, cpClosed(Cur(self), 1)) /\ UNCHANGED <<clicks, lab>>

\* the flasher reports progress through loaderOptions.terminal.writeLine
FlasherWriteLine ==
    \E self \in Runnable : self.pc = "cp_write" /\ portOpen
        /\ Commit(self, logLine(Cur(self), WritingPrefix))
        /\ UNCHANGED <<clicks, lab>>

\* the flasher clears the log through loaderOptions.terminal.clean
FlasherClean ==
    \E self \in Runnable : self.pc = "cp_main"
        /\ Commit(self, clearLog(Cur(self))) /\ UNCHANGED <<clicks, lab>>

TerminalSlept ==
    \E self \in Runnable : self.pc = "ct_sleep"
        /\ Commit(self, ctSlept(Cur(self), 1)) /\ UNCHANGED <<clicks, lab>>

TerminalOpened ==
    \E self \in Runnable : self.pc = "ct_open"
        /\ \E ok \in BOOLEAN :
              (ok => ~portOpen) /\ Commit(self, ctOpened(Cur(self), 1, ok))
        /\ UNCHANGED <<clicks, lab>>

ReadChunk ==
    \E self \in Runnable : self.pc = "ct_read" /\ ~Drain /\ readerLive /\ portOpen
        /\ Len(log) < MaxLog /\ Len(buffer) < MaxBuffer
        /\ \E value \in SerialChunks : Commit(self, ctChunk(Cur(self), 1, value))
        /\ UNCHANGED <<clicks, lab>>

ReadDone ==
    \E self \in Runnable : self.pc = "ct_read"
        /\ Commit(self, ctDone(Cur(self), 1)) /\ UNCHANGED <<clicks, lab>>

ReadLost ==
    \E self \in Runnable : self.pc = "ct_read" /\ ~Drain /\ readerLive
        /\ Commit(self, ctLost(Cur(self), 1)) /\ UNCHANGED <<clicks, lab>>

ReadError ==
    \E self \in Runnable : self.pc = "ct_read" /\ ~Drain /\ readerLive
        /\ Commit(self, ctError(Cur(self), 1)) /\ UNCHANGED <<clicks, lab>>

StopCancelled ==
    \E self \in Runnable : self.pc = "sm_cancel"
        /\ Commit(self, smCancelled(Cur(self), 1)) /\ UNCHANGED <<clicks, lab>>

StopClosed ==
    \E self \in Runnable : self.pc = "sm_close"
        /\ Commit(self, smClosed(Cur(self), 1)) /\ UNCHANGED <<clicks, lab>>

Next ==
    \/ ClickConnect \/ ClickProgram \/ ClickTerminal
    \/ ConnectDisconnected \/ ConnectClosed \/ ConnectRequested
    \/ ProgramEntered \/ ProgramErased \/ ProgramFetched \/ ProgramRead
    \/ ProgramWritten \/ ProgramDisconnected \/ ProgramClosed
    \/ FlasherWriteLine \/ FlasherClean
    \/ TerminalSlept \/ TerminalOpened
    \/ ReadChunk \/ ReadDone \/ ReadLost \/ ReadError
    \/ StopCancelled \/ StopClosed

Spec == Init /\ [][Next]_vars

\* a cancelled read settles, and the awaits of the teardown resolve
SpecLive ==
    /\ Spec
    /\ WF_vars(Drain /\ ReadDone)
    /\ WF_vars(StopCancelled)
    /\ WF_vars(StopClosed)

(***************************************************************************)
(* The read loop on a whole serial stream.  The page is monitoring (after  *)
(* Connect and Terminal); the device sends lab.all, which arrives in       *)
(* chunks cut at any byte, and then the stream ends.                       *)
(***************************************************************************)
SeqsUpTo(A, n) == UNION {[1..k -> A] : k \in 0..n}

StreamBytes == {LETTER, LF, CR, ESC, LBRACKET, LEAD_C3, CONT_A9}

\* "\x1B[2Khello\nworld\x07\n", "Writing at\nm\nWriting at\n" and
\* "Writing at\nm\nWriting atm"
SampleStreams ==
    {<<ESC, LBRACKET, 50, 75, 104, 101, 108, 108, 111, LF,
       119, 111, 114, 108, 100, BEL, LF>>,
     WritingPrefix \o <<LF, LETTER, LF>> \o WritingPrefix \o <<LF>>,
     WritingPrefix \o <<LF, LETTER, LF>> \o WritingPrefix \o <<LETTER>>}

Streams == SeqsUpTo(StreamBytes, MaxStream) \cup SampleStreams

Monitoring == [Idle EXCEPT !.op = "clickTerminal", !.pc = "ct_read"]

InitReader ==
    /\ device = SERIAL_PORT
    /\ transport = TRANSPORT
    /\ esploader = NULL
    /\ port = SERIAL_PORT
    /\ reader = READER
    /\ isMonitoring = TRUE
    /\ buffer = <<>>
    /\ progressLine = 0
    /\ log = <<>>
    /\ butConnectText = "Disconnect"
    /\ butProgramDisabled = FALSE
    /\ butTerminalDisabled = FALSE
    /\ butTerminalText = "Stop"
    /\ portOpen = TRUE
    /\ readerLive = TRUE
    /\ procs = SetToBag({Monitoring})
    /\ clicks = 2
    /\ \E all \in Streams : lab = [all |-> all, stream |-> all, ended |-> FALSE]

StreamChunk ==
    \E self \in Runnable : self.pc = "ct_read" /\ ~Drain /\ readerLive /\ portOpen
        /\ \E n \in 1..Len(lab.stream) :
              /\ Commit(self, ctChunk(Cur(self), 1, SubSeq(lab.stream, 1, n)))
              /\ lab' = [lab EXCEPT !.stream = SubSeq(@, n + 1, Len(@))]
        /\ UNCHANGED clicks

StreamDone ==
    \E self \in Runnable : self.pc = "ct_read" /\ lab.stream = <<>>
        /\ Commit(self, ctDone(Cur(self), 1))
        /\ lab' = [lab EXCEPT !.ended = TRUE]
        /\ UNCHANGED clicks

NextReader == StreamChunk \/ StreamDone \/ StopCancelled \/ StopClosed

SpecReader == InitReader /\ [][NextReader]_vars

(***************************************************************************)
(* cleanSerialOutput on a candidate line, and on its own result.           *)
(***************************************************************************)
LineChars == {LETTER, CR, ESC, LBRACKET, RBRACKET, ZERO, SEMI, BEL, BACKSLASH}

\* "\x1B\x1B[m[m", "\x1B]0;m\x07m", "\x1B]0;m\x1B\\m", "\x1B]0;\rm\x07",
\* "\x1B]0;m\\m"
SampleLines ==
    {<<ESC, ESC, LBRACKET, LETTER, LBRACKET, LETTER>>,
     <<ESC, RBRACKET, ZERO, SEMI, LETTER, BEL, LETTER>>,
     <<ESC, RBRACKET, ZERO, SEMI, LETTER, ESC, BACKSLASH, LETTER>>,
     <<ESC, RBRACKET, ZERO, SEMI, CR, LETTER, BEL>>,
     <<ESC, RBRACKET, ZERO, SEMI, LETTER, BACKSLASH, LETTER>>}

Lines == SeqsUpTo(LineChars, MaxText) \cup SampleLines

InitClean ==
    /\ InitPage
    /\ \E text \in Lines : lab = [text |-> text, runs |-> 0, once |-> <<>>,
                                  twice |-> <<>>]

CleanOnce ==
    /\ lab.runs = 0
    /\ lab' = [lab EXCEPT !.runs = 1, !.once = cleanSerialOutput(lab.text)]
    /\ UNCHANGED <<device, transport, esploader, port, reader, isMonitoring,
                   buffer, progressLine, log, butConnectText,
                   butProgramDisabled, butTerminalDisabled, butTerminalText,
                   portOpen, readerLive, procs, clicks>>

CleanTwice ==
    /\ lab.runs = 1
    /\ lab' = [lab EXCEPT !.runs = 2, !.twice = cleanSerialOutput(lab.once)]
    /\ UNCHANGED <<device, transport, esploader, port, reader, isMonitoring,
                   buffer, progressLine, log, butConnectText,
                   butProgramDisabled, butTerminalDisabled, butTerminalText,
                   portOpen, readerLive, procs, clicks>>

NextClean == CleanOnce \/ CleanTwice

SpecClean == InitClean /\ [][NextClean]_vars

(***************************************************************************)
(* Properties.                                                             *)
(***************************************************************************)
\* the step ends the activation self: its handler returns (or throws)
Completes(self) == self \in InFlight /\ procs' = procs (-) SetToBag({self})

\* the step appends the entry e as the newest child of #log
Logs(e) == log' # log /\ Len(log') > 0 /\ log'[Len(log')] = e

\* the Connected state of the page: a connection exists, nothing is
\* monitored, and the buttons offer Disconnect, Program and Terminal
ConnectedNow == Connected(Cur(Idle))

\* the buttons as the Disconnected page shows them
DisconnectedUI ==
    /\ butConnectText = "Connect"
    /\ butProgramDisabled /\ butTerminalDisabled
    /\ butTerminalText = "Terminal"

ProgramRuns == {self \in InFlight : self.op = "clickProgram"}

\* C1: when a run of clickProgram that passed the checks completes, whatever
\* step failed, the transport is disconnected (and cleared), the port is
\* closed and the program button is enabled.
C1_CleanupUnconditional ==
    [][\A self \in ProgramRuns :
          Completes(self) =>
              transport' = NULL /\ ~portOpen' /\ ~butProgramDisabled']_vars

\* a programming run has ended and the serial port is still open
C1_PortLeftOpen ==
    /\ portOpen /\ ProgramRuns = {} /\ ~isMonitoring /\ reader = NULL
    /\ transport = NULL /\ esploader = NULL /\ port = NULL
    /\ \E i \in 1..Len(log) : log[i] = Entry(MSG_PROGRAM_ERROR, TRUE)

StepOrder == <<"main", "erase", "fetch", "write">>

\* C2: in a programming run the flasher steps are invoked in the order main,
\* erase, fetch, write, each at most once and only after every earlier one
\* succeeded; write is invoked with address 0, flashSize "keep", eraseAll
\* false and compress true, and with the firmware bytes as they were fetched.
C2_StepOrderAndOptions ==
    \A self \in ProgramRuns :
        /\ Len(self.calls) \in 1..4
        /\ \A i \in 1..Len(self.calls) :
              /\ self.calls[i].step = StepOrder[i]
              /\ i < Len(self.calls) => self.calls[i].result = "ok"
        /\ Len(self.written) = (IF Len(self.calls) = 4 THEN 1 ELSE 0)
        /\ \A k \in 1..Len(self.written) :
              /\ self.written[k].flashSize = "keep"
              /\ self.written[k].eraseAll = FALSE
              /\ self.written[k].compress = TRUE
              /\ Len(self.written[k].fileArray) = 1
              /\ self.written[k].fileArray[1].address = 0
              /\ self.written[k].fileArray[1].data \in FirmwareImages

\* write was invoked with the options for the empty image
C2_WriteInvoked ==
    \E self \in ProgramRuns :
        /\ self.pc = "cp_write" /\ Len(self.calls) = 4
        /\ self.written[1].fileArray[1].data = <<>>

\* the step ends a monitoring teardown: stopMonitoring reaches its last line
TeardownEnds == Logs(Entry(MSG_TERMINAL_STOPPED, FALSE))

C4_ReturnsConnected ==
    [][\A self \in ProgramRuns :
          (self.startedConnected /\ Completes(self)) => ConnectedNow']_vars

\* a successful programming run has ended, alone, and the transport is gone
\* while the buttons still show the connected page
C4_ConnectionGone ==
    /\ procs = EmptyBag /\ transport = NULL /\ port # NULL /\ ~isMonitoring
    /\ butConnectText = "Disconnect" /\ ~butProgramDisabled
    /\ Len(log) > 0 /\ log[Len(log)] = Entry(MSG_INSTALLED, FALSE)

\* C5: every programming run in flight passed its checks in the Connected
\* state (not Disconnected, not monitoring).
C5_StartsConnected == \A self \in ProgramRuns : self.startedConnected

\* a programming run is entering the bootloader while the read loop runs
C5_ProgramWhileMonitoring ==
    /\ isMonitoring
    /\ \E self \in ProgramRuns : self.pc = "cp_main" /\ ~self.startedConnected
    /\ \E self \in InFlight : self.pc = "ct_read"

\* the activations suspended at an await other than the read loop's read
Operations == {self \in InFlight : self.pc # "ct_read"}

\* C6: at most one operation (connect/disconnect, program, terminal start,
\* monitoring teardown) is in flight at a time.
C6_OneOperation ==
    /\ Cardinality(Operations) <= 1
    /\ \A self \in Operations : CopiesIn(self, procs) = 1

\* a disconnect is awaiting transport.disconnect() while a programming run
\* is awaiting the flash write
C6_DisconnectWhileProgramming ==
    /\ \E self \in InFlight : self.pc = "cc_disconnect"
    /\ \E self \in InFlight : self.pc = "cp_write"

\* the newest MaxLog entries of a log
Window(entries) ==
    SubSeq(entries, IF Len(entries) > MaxLog THEN Len(entries) - MaxLog + 1 ELSE 1,
           Len(entries))

\* the whole stream read as one chunk and then the end of the stream
WholeStream(all) ==
    streamEnd(receive([buffer |-> <<>>, log |-> <<>>, progressLine |-> 0], all))

\* C7: however the stream is cut into chunks, when it has ended the display
\* holds the lines it holds when the stream arrives as one chunk.
C7_ChunkIndependent ==
    (lab.ended /\ InFlight # {}) => log = Window(WholeStream(lab.all).log)

\* the two bytes of a two-byte character arrived in two chunks
C7_SplitCharacter ==
    /\ lab.all = <<LEAD_C3, CONT_A9>> /\ lab.ended /\ InFlight # {}
    /\ log = <<Entry(<<REPLACEMENT, REPLACEMENT>>, FALSE),
               Entry(MSG_STREAM_ENDED, FALSE)>>
    /\ WholeStream(lab.all).log = <<Entry(<<EACUTE>>, FALSE),
                                    Entry(MSG_STREAM_ENDED, FALSE)>>

\* C8: cleaning a cleaned line changes nothing:
\* cleanSerialOutput(cleanSerialOutput(t)) = cleanSerialOutput(t).
C8_CleanIdempotent == lab.runs = 2 => lab.twice = lab.once

\* a line was cleaned twice whose first cleaning joins "\x1B" and "[m"
C8_CleanedTwice ==
    /\ lab.runs = 2
    /\ lab.text = <<ESC, ESC, LBRACKET, LETTER, LBRACKET, LETTER>>
    /\ lab.once = <<LBRACKET, LETTER>>
    /\ lab.twice = lab.once

\* the candidate lines of a text: the pieces between line feeds and the
\* unterminated rest
RECURSIVE candidates(_)
candidates(text) ==
    LET newlineIndex == indexOf(text, LF)
    IN  IF newlineIndex = 0 THEN <<text>>
        ELSE <<SubSeq(text, 1, newlineIndex - 1)>>
                 \o candidates(SubSeq(text, newlineIndex + 1, Len(text)))

IsAscii(bytes) == \A i \in 1..Len(bytes) : bytes[i] < 128

\* every candidate line of the stream cleans to the empty string
Suppressed(all) ==
    /\ IsAscii(all)
    /\ \A i \in 1..Len(candidates(all)) :
          cleanSerialOutput(candidates(all)[i]) = <<>>

Notices == {Entry(MSG_STREAM_ENDED, FALSE), Entry(MSG_TERMINAL_STOPPED, FALSE)}

\* C9: the reader creates no display entry with empty text, and a stream
\* whose candidate lines all clean to the empty string (control sequences
\* only, a lone "\r\n") puts nothing but the notices into the display.
C9_NoEmptyEntry ==
    /\ \A i \in 1..Len(log) : log[i].text # <<>>
    /\ Suppressed(lab.all) => \A i \in 1..Len(log) : log[i] \in Notices

\* a line made of one control sequence was read and split off, and the
\* display is still empty
C9_LineSuppressed ==
    /\ lab.all = <<ESC, LBRACKET, LETTER, LF>>
    /\ lab.stream = <<>> /\ ~lab.ended
    /\ buffer = <<>> /\ log = <<>>

\* the read that ended the loop of self failed
FailedRead(self) ==
    /\ self.calls # <<>>
    /\ self.calls[Len(self.calls)].step = "read"
    /\ self.calls[Len(self.calls)].result \in {"lost", "error"}

\* the log after the read loop ended with notice, with or without the
\* teardown ending in the same step
EndedWith(notice) ==
    \/ log' = Window(log \o <<notice>>)
    \/ log' = Window(log \o <<notice, Entry(MSG_TERMINAL_STOPPED, FALSE)>>)

TornDown == ~isMonitoring /\ reader = NULL /\ ~portOpen

\* C10: a device-lost read error ends the loop with the device-lost notice
\* and no terminal failure, any other read error is logged as a terminal
\* failure, and the teardown that follows either leaves the monitoring flag
\* false, the reader released and the port closed.
C10_ReadErrorTeardown ==
    [][/\ ReadLost => EndedWith(Entry(MSG_DEVICE_LOST, TRUE))
       /\ ReadError => EndedWith(Entry(MSG_TERMINAL_FAILED, TRUE))
       /\ ((ReadLost \/ ReadError) /\ isMonitoring /\ procs' \sqsubseteq procs)
              => TornDown'
       /\ \A self \in InFlight :
              (/\ FailedRead(self) /\ self.pc \in {"sm_cancel", "sm_close"}
               /\ Completes(self)) => TornDown']_vars

\* a teardown has ended while a session that was started during it is
\* monitoring: the flag is true, the reader is held, the port handle is gone
C10_TeardownClobbers ==
    /\ isMonitoring /\ reader # NULL /\ port = NULL
    /\ \E self \in InFlight : self.pc = "ct_read" /\ ~FailedRead(self)
    /\ Len(log) > 0 /\ log[Len(log)] = Entry(MSG_TERMINAL_STOPPED, FALSE)

\* C11: the program button is enabled only while a connection exists (the
\* transport clickProgram requires is set).
C11_EnabledOnlyConnected == ~butProgramDisabled => transport # NULL

\* a failed programming run has ended: the button is enabled, the transport
\* is gone
C11_EnabledUnconnected ==
    /\ procs = EmptyBag /\ ~butProgramDisabled /\ transport = NULL
    /\ Len(log) > 0 /\ log[Len(log)] = Entry(MSG_PROGRAM_ERROR, TRUE)

\* C12: while a read loop is suspended at its read, the monitoring flag and
\* the port are not both gone; and while the monitoring flag is set, a read
\* loop is running.
C12_LoopIsSession ==
    /\ ReadLoops # {} => (isMonitoring \/ port # NULL)
    /\ isMonitoring => ReadLoops # {}

\* a read loop is suspended at its read with the flag cleared and the port
\* handle gone, while another start of the terminal tears the session down
C12_LoopWithoutSession ==
    /\ ReadLoops # {} /\ ~isMonitoring /\ port = NULL /\ reader # NULL
    /\ \E self \in InFlight : self.op = "clickTerminal" /\ self.pc = "sm_cancel"

\* the page after a handler that only reported the error msg and returned
Refused(S, msg) ==
    [S EXCEPT !.log = Append(@, Entry(msg, TRUE)), !.procs = <<Idle>>]

\* C13: clickProgram without a transport or without a selected firmware,
\* and clickTerminal (not monitoring) without a port, report their error,
\* return without awaiting anything, and change no variable and no button.
C13_RefusalChangesNothing ==
    /\ \A selectedFirmware \in FirmwareChoices, confirmed \in BOOLEAN :
          (transport = NULL \/ selectedFirmware = "") =>
              clickProgram(Cur(Begin("clickProgram")), 1,
                           selectedFirmware, confirmed)
                = Refused(Cur(Begin("clickProgram")),
                          IF transport = NULL THEN MSG_CONNECT_FIRST
                          ELSE MSG_SELECT_FIRMWARE)
    /\ (~isMonitoring /\ port = NULL) =>
          clickTerminal(Cur(Begin("clickTerminal")), 1)
            = Refused(Cur(Begin("clickTerminal")), MSG_CONNECT_FIRST)

\* Program was clicked on the connected page with no firmware selected
C13_Refused ==
    /\ procs = EmptyBag /\ transport # NULL /\ ~butProgramDisabled
    /\ esploader = NULL /\ progressLine = 0
    /\ Len(log) > 0 /\ log[Len(log)] = Entry(MSG_SELECT_FIRMWARE, TRUE)

\* the step ends a connect attempt with "Failed to connect: ..."
ConnectFails == ConnectRequested /\ Logs(Entry(MSG_FAILED_CONNECT, TRUE))

\* the next click on the connect button asks for a port
RequestsPort ==
    clickConnect(Cur(Begin("clickConnect")), 1).procs[1].pc = "cc_request"

\* C14: when acquiring the connection fails, no handle (device, port,
\* transport) is left set, the page shows the Disconnected buttons, and the
\* next connect requests a port again.
C14_FailedConnectLeavesNothing ==
    [][ConnectFails =>
          /\ device' = NULL /\ port' = NULL /\ transport' = NULL
          /\ DisconnectedUI' /\ RequestsPort']_vars

\* the port was granted and the transport could not be created: the page
\* shows Connect and holds the port
C14_PortKept ==
    /\ procs = EmptyBag /\ clicks = 1 /\ DisconnectedUI
    /\ device = SERIAL_PORT /\ port = SERIAL_PORT /\ transport = NULL
    /\ ~RequestsPort
    /\ log[Len(log)] = Entry(MSG_FAILED_CONNECT, TRUE)

\* the part of the stream the read loop has received
Consumed == SubSeq(lab.all, 1, Len(lab.all) - Len(lab.stream))

\* the candidate lines of a text that a line feed ends
terminated(text) == SubSeq(candidates(text), 1, Len(candidates(text)) - 1)

\* one entry for each line whose cleaned text is not empty, in order
RECURSIVE entries(_)
entries(lines) ==
    IF lines = <<>> THEN <<>>
    ELSE (IF cleanSerialOutput(Head(lines)) = <<>> THEN <<>>
          ELSE <<Entry(cleanSerialOutput(Head(lines)), FALSE)>>)
             \o entries(Tail(lines))

\* C15: while monitoring, the display holds one entry for every received
\* line whose cleaned text is not empty, in the order received, whatever the
\* text of the line.
C15_EveryLineShown ==
    (IsAscii(lab.all) /\ ~lab.ended) =>
        log = Window(entries(terminated(Consumed)))

\* the device sent "Writing at", "m", "Writing at": the display holds two
\* entries
C15_LineOverwritten ==
    /\ lab.all = WritingPrefix \o <<LF, LETTER, LF>> \o WritingPrefix \o <<LF>>
    /\ lab.stream = <<>> /\ ~lab.ended /\ buffer = <<>>
    /\ log = <<Entry(WritingPrefix, FALSE), Entry(<<LETTER>>, FALSE)>>
    /\ progressLine = 1

\* first index j >= i where BEL, or ESC followed by a backslash, stands;
\* 0 when there is none
RECURSIVE FindEnd(_, _)
FindEnd(s, i) ==
    IF i > Len(s) THEN 0
    ELSE IF s[i] = BEL THEN i
    ELSE IF s[i] = ESC /\ i < Len(s) /\ s[i + 1] = BACKSLASH THEN i + 1
    ELSE FindEnd(s, i + 1)

\* the length of the OSC title sequence "\x1B]0;" ... BEL or
\* "\x1B]0;" ... ESC "\\" that starts at i, 0 for none
TitleLen(s, i) ==
    IF i + 3 <= Len(s) /\ s[i] = ESC /\ s[i + 1] = RBRACKET
       /\ s[i + 2] = ZERO /\ s[i + 3] = SEMI /\ FindEnd(s, i + 4) > 0
    THEN FindEnd(s, i + 4) - i + 1
    ELSE 0

\* the line without its CSI sequences, its terminated title sequences, its
\* control bytes and its carriage returns; every other character is kept
RECURSIVE Stripped(_, _)
Stripped(s, i) ==
    IF i > Len(s) THEN <<>>
    ELSE IF MatchCSI(s, i) > 0 THEN Stripped(s, i + MatchCSI(s, i))
    ELSE IF TitleLen(s, i) > 0 THEN Stripped(s, i + TitleLen(s, i))
    ELSE IF IsControl(s[i]) THEN Stripped(s, i + 1)
    ELSE <<s[i]>> \o Stripped(s, i + 1)

\* C16: cleaning removes exactly the CSI sequences, the title sequences
\* that BEL or ESC-backslash terminates, the control bytes and the carriage
\* returns, whole, and keeps every other character in order.
C16_RemovesExactly == lab.runs >= 1 => lab.once = Stripped(lab.text, 1)

\* "\x1B]0;m\\m" was cleaned to "m": the text up to a bare backslash is
\* gone
C16_TextRemoved ==
    /\ lab.runs = 1
    /\ lab.text = <<ESC, RBRACKET, ZERO, SEMI, LETTER, BACKSLASH, LETTER>>
    /\ lab.once = <<LETTER>>
    /\ Stripped(lab.text, 1) = <<RBRACKET, ZERO, SEMI, LETTER, BACKSLASH, LETTER>>

\* C17: once monitoring was stopped while a read is pending (the flag is
\* cleared and reader.cancel() was called), the read loop ends without
\* another read, the reader is released, and the flag becomes true again
\* only when a terminal start has opened the port.
C17_StopEndsLoop ==
    /\ Drain ~> (ReadLoops = {} /\ ~isMonitoring)
    /\ Drain ~> (reader = NULL /\ ~readerLive)
    /\ [][(Drain /\ ReadDone) => \A self \in ReadLoops :
              CopiesIn(self, procs') <= CopiesIn(self, procs)]_vars
    /\ [][(~isMonitoring /\ isMonitoring') => TerminalOpened]_vars

\* the user stopped a session: the loop took the end of its stream, the
\* teardown ran to its end
C17_Stopped ==
    /\ clicks = 3 /\ procs = EmptyBag /\ ~isMonitoring /\ reader = NULL
    /\ ~readerLive /\ ~portOpen
    /\ log = <<Entry(MSG_STREAM_ENDED, FALSE), Entry(MSG_TERMINAL_STOPPED, FALSE)>>

\* C18: when the reader signals the end of the stream, the rest of the
\* buffer is cleaned and, if not empty, becomes the last line before the
\* stream-ended notice; the buffer is empty afterwards, the notice is added
\* once, and nothing but the teardown notice follows it.
C18_StreamEndFlushes ==
    /\ [][(~lab.ended /\ lab.ended') =>
              /\ log' = Window(log \o entries(<<buffer>>)
                                   \o <<Entry(MSG_STREAM_ENDED, FALSE)>>)
              /\ buffer' = <<>>]_vars
    /\ [][lab.ended =>
              \/ log' = log
              \/ log' = Window(log \o <<Entry(MSG_TERMINAL_STOPPED, FALSE)>>)]_vars

\* the device sent "Writing at", "m" and then "Writing atm" with no line
\* feed: at the end of the stream the notice follows "m"
C18_RestOverwrites ==
    /\ lab.all = WritingPrefix \o <<LF, LETTER, LF>> \o WritingPrefix \o <<LETTER>>
    /\ lab.ended /\ buffer = <<>> /\ progressLine = 1
    /\ log = <<Entry(WritingPrefix \o <<LETTER>>, FALSE), Entry(<<LETTER>>, FALSE),
               Entry(MSG_STREAM_ENDED, FALSE)>>

\* C19: whenever no handler is in flight, the connect button reads
\* "Connect" exactly when no connection handle is held: transport and port
\* are both null.
C19_ConnectIffNoHandle ==
    procs = EmptyBag =>
        (butConnectText = "Connect" <=> (transport = NULL /\ port = NULL))

\* Connect, Terminal and a terminal stop have run: the button reads
\* "Connect" and the transport is still held
C19_ConnectWithTransport ==
    /\ procs = EmptyBag /\ clicks = 3
    /\ butConnectText = "Connect" /\ transport = TRANSPORT
    /\ port = NULL /\ device = NULL
    /\ log[Len(log)] = Entry(MSG_TERMINAL_STOPPED, FALSE)

\* the chunk a step of the read loop received
Received == SubSeq(lab.stream, 1, Len(lab.stream) - Len(lab.stream'))

\* the text after the last line feed of a text
rest(text) == candidates(text)[Len(candidates(text))]

\* C20: each time the read loop has processed a chunk and awaits the next
\* read, the buffer holds no line feed: it is the text received after the
\* last line feed.
C20_BufferIsRest ==
    /\ []((ReadLoops # {} /\ ~lab.ended) =>
              /\ indexOf(buffer, LF) = 0
              /\ IsAscii(lab.all) => buffer = rest(Consumed))
    /\ [][(lab.stream' # lab.stream) =>
              buffer' = rest(buffer \o decode(Received))]_vars

\* "m\nm" was received in one or more chunks: the buffer holds the second m
C20_LineSplitOff ==
    /\ lab.all = <<LETTER, LF, LETTER>> /\ lab.stream = <<>> /\ ~lab.ended
    /\ ReadLoops # {}
    /\ buffer = <<LETTER>> /\ log = <<Entry(<<LETTER>>, FALSE)>>
====
